---- MODULE Spec2Model ----
(***************************************************************************)
(* Model of qbusmqttapi: the state classes of state.py and the message and *)
(* topic factories of factory.py.                                          *)
(*                                                                         *)
(* Python values are tagged records.  The dictionaries the code can mutate *)
(* (the ones bound to QbusMqttState.properties) live in `heap' and are     *)
(* referred to by address, so that two references to one dictionary are    *)
(* visible as such; every other value is immutable and held by value.      *)
(* JSON text is modelled by its syntax tree, or as invalid text.           *)
(***************************************************************************)
EXTENDS Integers, Sequences, FiniteSets, TLC

VARIABLES objs, heap, data, hist, writes, last

vars == <<objs, heap, data, hist, writes, last>>

(* ------------------------------------------------------------------ *)
(* const.py and the key constants of state.py                          *)
(* ------------------------------------------------------------------ *)
TOPIC_PREFIX == "cloudapp/QBUSMQTTGW"

KEY_OUTPUT_ACTION == "action"
KEY_OUTPUT_ID == "id"
KEY_OUTPUT_PROPERTIES == "properties"
KEY_OUTPUT_TYPE == "type"

KEY_PROPERTIES_AUTHKEY == "authKey"
KEY_PROPERTIES_CURRENT_TEMPERATURE == "currTemp"
KEY_PROPERTIES_REGIME == "currRegime"
KEY_PROPERTIES_SET_TEMPERATURE == "setTemp"
KEY_PROPERTIES_SHUTTER_POSITION == "shutterPosition"
KEY_PROPERTIES_SLAT_POSITION == "slatPosition"
KEY_PROPERTIES_STATE == "state"
KEY_PROPERTIES_VALUE == "value"

KEY_DEVICE_CONNECTABLE == "connectable"
KEY_DEVICE_CONNECTED == "connected"
KEY_DEVICE_ID == "id"
KEY_DEVICE_STATE_PROPERTIES == "properties"

KEY_GATEWAY_ID == "id"
KEY_GATEWAY_ONLINE == "online"
KEY_GATEWAY_REASON == "reason"

KEY_DEVICES == "devices"

StateType_ACTION == "action"
StateAction_ACTIVATE == "activate"

(* ------------------------------------------------------------------ *)
(* Python values                                                       *)
(* ------------------------------------------------------------------ *)
None == [t |-> "none"]
Str(s) == [t |-> "str", s |-> s]
Num(n) == [t |-> "int", n |-> n]
Bool(b) == [t |-> "bool", b |-> b]
List(l) == [t |-> "list", l |-> l]
\* a dict held by value (never mutated by the code)
Dict(m) == [t |-> "dict", m |-> m]
\* a reference to a dict of the heap
Ref(a) == [t |-> "ref", a |-> a]

EmptyDict == [k \in {} |-> None]

\* d[k] = v on a dict
Put(d, k, v) == [x \in (DOMAIN d) \cup {k} |-> IF x = k THEN v ELSE d[x]]

\* dict.get(key, default)
dict_get(d, key, default) == IF key \in DOMAIN d THEN d[key] ELSE default

\* an instance of a class (it has a __dict__) as opposed to a builtin value
IsInstance(v) == "cls" \in DOMAIN v

\* bool(v): what `if v' tests
Truthy(v, h) ==
    CASE v.t = "none" -> FALSE
      [] v.t = "str" -> v.s # ""
      [] v.t = "int" -> v.n # 0
      [] v.t = "bool" -> v.b
      [] v.t = "list" -> Len(v.l) > 0
      [] v.t = "dict" -> DOMAIN v.m # {}
      [] v.t = "ref" -> DOMAIN h[v.a] # {}

\* only a dict has .get and accepts d[str] = v
IsDict(v) == v.t \in {"dict", "ref"}

Deref(v, h) == IF v.t = "ref" THEN h[v.a] ELSE v.m

\* a value with every heap reference replaced by the dict it refers to
ByValue(v, h) == IF v.t = "ref" THEN Dict(h[v.a]) ELSE v

(* ------------------------------------------------------------------ *)
(* JSON text: a syntax tree, or text json.loads rejects                *)
(* ------------------------------------------------------------------ *)
JNull == [j |-> "null"]
JStr(s) == [j |-> "string", js |-> s]
JNum(n) == [j |-> "number", jn |-> n]
JBool(b) == [j |-> "bool", jb |-> b]
JArr(l) == [j |-> "array", ja |-> l]
JObj(m) == [j |-> "object", jo |-> m]

NonePayload == [p |-> "none"]
InvalidText(s) == [p |-> "invalid", text |-> s]
JsonText(doc) == [p |-> "json", doc |-> doc]

RECURSIVE Loads(_)
\* the value json.loads builds for a syntax tree
Loads(doc) ==
    CASE doc.j = "null" -> None
      [] doc.j = "string" -> Str(doc.js)
      [] doc.j = "number" -> Num(doc.jn)
      [] doc.j = "bool" -> Bool(doc.jb)
      [] doc.j = "array" -> List([i \in DOMAIN doc.ja |-> Loads(doc.ja[i])])
      [] doc.j = "object" -> Dict([k \in DOMAIN doc.jo |-> Loads(doc.jo[k])])

\* json.loads(payload): ValueError on text that is not JSON
json_loads(payload) ==
    IF payload.p = "invalid"
    THEN [exc |-> "ValueError", v |-> None]
    ELSE [exc |-> "none", v |-> Loads(payload.doc)]

\* The dict json.loads built under "properties" is one object: it is put on
\* the heap at address a, and the mapping holds a reference to it.
Place(v, h, a) ==
    IF v.t = "dict" /\ KEY_OUTPUT_PROPERTIES \in DOMAIN v.m
       /\ v.m[KEY_OUTPUT_PROPERTIES].t = "dict"
    THEN [v |-> Dict([v.m EXCEPT ![KEY_OUTPUT_PROPERTIES] = Ref(a)]),
          heap |-> [h EXCEPT ![a] = v.m[KEY_OUTPUT_PROPERTIES].m]]
    ELSE [v |-> v, heap |-> h]

(* ------------------------------------------------------------------ *)
(* state.py                                                            *)
(* ------------------------------------------------------------------ *)
QbusMqttState == "QbusMqttState"
QbusMqttOnOffState == "QbusMqttOnOffState"
QbusMqttAnalogState == "QbusMqttAnalogState"
QbusMqttShutterState == "QbusMqttShutterState"
QbusMqttThermoState == "QbusMqttThermoState"
QbusMqttGatewayState == "QbusMqttGatewayState"
QbusMqttDeviceState == "QbusMqttDeviceState"
QbusDiscovery == "QbusDiscovery"

\* QbusMqttState and the classes derived from it
OutputStateClasses ==
    {QbusMqttState, QbusMqttOnOffState, QbusMqttAnalogState,
     QbusMqttShutterState, QbusMqttThermoState}

Raise(e) == [exc |-> e, obj |-> None]
Return(o) == [exc |-> "none", obj |-> o]

\* QbusMqttGatewayState(data): data.get on whatever data is
QbusMqttGatewayState_init(d) ==
    IF ~IsDict(d) THEN Raise("AttributeError")
    ELSE Return([cls |-> QbusMqttGatewayState,
                 id |-> dict_get(d.m, KEY_GATEWAY_ID, None),
                 online |-> dict_get(d.m, KEY_GATEWAY_ONLINE, None),
                 reason |-> dict_get(d.m, KEY_GATEWAY_REASON, None)])

\* QbusMqttDeviceStateProperties(data)
QbusMqttDeviceStateProperties_init(d, h) ==
    IF ~IsDict(d) THEN Raise("AttributeError")
    ELSE Return([cls |-> "QbusMqttDeviceStateProperties",
                 connectable |-> dict_get(Deref(d, h), KEY_DEVICE_CONNECTABLE, None),
                 connected |-> dict_get(Deref(d, h), KEY_DEVICE_CONNECTED, None)])

\* QbusMqttDeviceState(data)
QbusMqttDeviceState_init(d, h) ==
    IF ~IsDict(d) THEN Raise("AttributeError")
    ELSE LET properties == dict_get(d.m, KEY_DEVICE_STATE_PROPERTIES, None)
             p == IF properties # None
                  THEN QbusMqttDeviceStateProperties_init(properties, h)
                  ELSE Return(None)
         IN  IF p.exc # "none" THEN p
             ELSE Return([cls |-> QbusMqttDeviceState,
                          id |-> dict_get(d.m, KEY_DEVICE_ID, None),
                          properties |-> p.obj])

\* QbusMqttState.__init__ without `self.action = data.get(KEY_OUTPUT_ACTION)'
QbusMqttState_init_without_action(cls, d, id, type, action) ==
    IF d # None /\ ~IsDict(d) THEN Raise("AttributeError")
    ELSE LET s0 == [cls |-> cls, id |-> Str(""), type |-> Str(""),
                    action |-> None, properties |-> None]
             s1 == IF d # None
                   THEN [s0 EXCEPT !.id = dict_get(d.m, KEY_OUTPUT_ID, Str("")),
                                   !.type = dict_get(d.m, KEY_OUTPUT_TYPE, Str("")),
                                   !.properties = dict_get(d.m, KEY_OUTPUT_PROPERTIES, None)]
                   ELSE s0
             s2 == IF id # None THEN [s1 EXCEPT !.id = id] ELSE s1
             s3 == IF type # None THEN [s2 EXCEPT !.type = type] ELSE s2
             s4 == IF action # None THEN [s3 EXCEPT !.action = action] ELSE s3
         IN  Return(s4)

\* QbusMqttState.__init__(self, data, *, id, type, action), also reached
\* through super().__init__(data, id=id, type=type) of the derived classes
QbusMqttState_init(cls, d, id, type, action) ==
    IF d # None /\ ~IsDict(d) THEN Raise("AttributeError")
    ELSE LET s0 == [cls |-> cls, id |-> Str(""), type |-> Str(""),
                    action |-> None, properties |-> None]
             s1 == IF d # None
                   THEN [s0 EXCEPT !.id = dict_get(d.m, KEY_OUTPUT_ID, Str("")),
                                   !.type = dict_get(d.m, KEY_OUTPUT_TYPE, Str("")),
                                   !.action = dict_get(d.m, KEY_OUTPUT_ACTION, None),
                                   !.properties = dict_get(d.m, KEY_OUTPUT_PROPERTIES, None)]
                   ELSE s0
             s2 == IF id # None THEN [s1 EXCEPT !.id = id] ELSE s1
             s3 == IF type # None THEN [s2 EXCEPT !.type = type] ELSE s2
             s4 == IF action # None THEN [s3 EXCEPT !.action = action] ELSE s3
         IN  Return(s4)

\* QbusMqttState.read_property(self, key, default)
read_property(self, h, key, default) ==
    IF Truthy(self.properties, h)
    THEN IF IsDict(self.properties)
         THEN [exc |-> "none", ret |-> dict_get(Deref(self.properties, h), key, default)]
         ELSE [exc |-> "AttributeError", ret |-> None]
    ELSE [exc |-> "none", ret |-> default]

\* QbusMqttState.write_property(self, key, value); a is the address the
\* dict created by `self.properties = {}' gets
write_property(self, h, a, key, value) ==
    LET fresh == self.properties = None
        p == IF fresh THEN Ref(a) ELSE self.properties
        h0 == IF fresh THEN [h EXCEPT ![a] = EmptyDict] ELSE h
    IN  IF p.t = "ref"
        THEN [exc |-> "none",
              self |-> [self EXCEPT !.properties = p],
              heap |-> [h0 EXCEPT ![p.a] = Put(@, key, value)]]
        ELSE [exc |-> "TypeError", self |-> self, heap |-> h]

\* QbusMqttOnOffState
read_value(self, h) == read_property(self, h, KEY_PROPERTIES_VALUE, Bool(FALSE))
write_value(self, h, a, on) == write_property(self, h, a, KEY_PROPERTIES_VALUE, on)

\* QbusMqttAnalogState
read_percentage(self, h) == read_property(self, h, KEY_PROPERTIES_VALUE, Num(0))
write_percentage(self, h, a, percentage) ==
    write_property(self, h, a, KEY_PROPERTIES_VALUE, percentage)
\* write_on_off going through the property map, as write_percentage does
write_on_off_as_property(self, h, a, on) ==
    write_property(self, h, a, KEY_PROPERTIES_VALUE, on)

write_on_off(self, h, a, on) ==
    [exc |-> "none",
     self |-> [self EXCEPT !.action = IF Truthy(on, h) THEN Str("on") ELSE Str("off")],
     heap |-> h]

\* QbusMqttShutterState
read_state(self, h) == read_property(self, h, KEY_PROPERTIES_STATE, None)
write_state(self, h, a, state) == write_property(self, h, a, KEY_PROPERTIES_STATE, state)
read_position(self, h) == read_property(self, h, KEY_PROPERTIES_SHUTTER_POSITION, None)
write_position(self, h, a, percentage) ==
    write_property(self, h, a, KEY_PROPERTIES_SHUTTER_POSITION, percentage)
read_slat_position(self, h) == read_property(self, h, KEY_PROPERTIES_SLAT_POSITION, None)
write_slat_position(self, h, a, percentage) ==
    write_property(self, h, a, KEY_PROPERTIES_SLAT_POSITION, percentage)

\* QbusMqttThermoState
read_current_temperature(self, h) ==
    read_property(self, h, KEY_PROPERTIES_CURRENT_TEMPERATURE, None)
read_set_temperature(self, h) ==
    read_property(self, h, KEY_PROPERTIES_SET_TEMPERATURE, None)
write_set_temperature(self, h, a, temperature) ==
    write_property(self, h, a, KEY_PROPERTIES_SET_TEMPERATURE, temperature)
read_regime(self, h) == read_property(self, h, KEY_PROPERTIES_REGIME, None)
write_regime(self, h, a, regime) ==
    write_property(self, h, a, KEY_PROPERTIES_REGIME, regime)

(* ------------------------------------------------------------------ *)
(* factory.py                                                          *)
(* ------------------------------------------------------------------ *)
\* the instance attributes of o (its __dict__)
Attributes(o) == (DOMAIN o) \ {"cls"}

\* IgnoreNoneJsonEncoder.default(o): called by json.dumps for a value it has
\* no encoding for; an instance gives the dict of its attributes that are not
\* None
IgnoreNoneJsonEncoder_default(o) ==
    Dict([k \in {f \in Attributes(o) : o[f] # None} |-> o[k]])

RECURSIVE json_dumps(_, _)
\* json.dumps(v, cls=IgnoreNoneJsonEncoder): builtin values are encoded by
\* the json module itself, a dict with all of its entries
json_dumps(v, h) ==
    IF IsInstance(v) THEN json_dumps(IgnoreNoneJsonEncoder_default(v), h)
    ELSE CASE v.t = "none" -> JNull
           [] v.t = "str" -> JStr(v.s)
           [] v.t = "int" -> JNum(v.n)
           [] v.t = "bool" -> JBool(v.b)
           [] v.t = "list" -> JArr([i \in DOMAIN v.l |-> json_dumps(v.l[i], h)])
           [] v.t = "dict" -> JObj([k \in DOMAIN v.m |-> json_dumps(v.m[k], h)])
           [] v.t = "ref" -> JObj([k \in DOMAIN h[v.a] |-> json_dumps(h[v.a][k], h)])

\* QbusMqttMessageFactory.serialize(obj)
serialize(obj, h) == JsonText(json_dumps(obj, h))

\* QbusDiscovery(data): the devices of the document, none when it names none
QbusDiscovery_init(d) ==
    LET devices == IF d.t = "dict" THEN dict_get(d.m, KEY_DEVICES, List(<<>>))
                   ELSE List(<<>>)
    IN  Return([cls |-> QbusDiscovery,
                devices |-> IF devices.t = "list" THEN devices.l ELSE <<>>])

\* state_cls(data)
Instantiate(state_cls, d, h) ==
    CASE state_cls \in OutputStateClasses -> QbusMqttState_init(state_cls, d, None, None, None)
      [] state_cls = QbusMqttGatewayState -> QbusMqttGatewayState_init(d)
      [] state_cls = QbusMqttDeviceState -> QbusMqttDeviceState_init(d, h)
      [] state_cls = QbusDiscovery -> QbusDiscovery_init(d)

\* QbusMqttMessageFactory.deserialize(state_cls, payload); a is the address
\* of the properties dict json.loads creates
deserialize(state_cls, payload, h, a) ==
    IF payload = NonePayload
    THEN [exc |-> "none", ret |-> None, heap |-> h]
    ELSE LET r == json_loads(payload)
         IN  IF r.exc = "ValueError"
             THEN [exc |-> "none", ret |-> None, heap |-> h]
             ELSE LET pl == Place(r.v, h, a)
                      c == Instantiate(state_cls, pl.v, pl.heap)
                  IN  IF c.exc # "none"
                      THEN [exc |-> c.exc, ret |-> None, heap |-> h]
                      ELSE [exc |-> "none", ret |-> c.obj, heap |-> pl.heap]

\* parse_discovery without the check for an empty discovery
parse_discovery_unchecked(payload, h, a) == deserialize(QbusDiscovery, payload, h, a)

\* QbusMqttMessageFactory.parse_discovery(payload)
parse_discovery(payload, h, a) ==
    LET r == deserialize(QbusDiscovery, payload, h, a)
    IN  IF r.exc # "none" THEN r
        ELSE IF r.ret # None /\ Len(r.ret.devices) = 0
             THEN [r EXCEPT !.ret = None]
             ELSE r

\* the template of get_device_state_topic in place of the command topic's
get_device_command_topic_as_state(device_id, prefix) ==
    prefix \o "/" \o device_id \o "/state"

\* QbusMqttTopicFactory.get_device_command_topic(device_id, prefix)
get_device_command_topic(device_id, prefix) ==
    prefix \o "/" \o device_id \o "/setState"

\* the value of a parameter `prefix: str = TOPIC_PREFIX'
PrefixOrDefault(prefix) == IF prefix = None THEN TOPIC_PREFIX ELSE prefix.s

\* QbusMqttMessageFactory.create_device_activate_request(device, prefix);
\* the state it builds is local to the call, on a heap h of its own
create_device_activate_request(device, prefix, h, a) ==
    LET state == QbusMqttState_init(QbusMqttState, None, Str(device.id),
                                    Str(StateType_ACTION), Str(StateAction_ACTIVATE)).obj
        w == write_property(state, h, a, KEY_PROPERTIES_AUTHKEY, Str("ubielite"))
    IN  [topic |-> get_device_command_topic(device.id, PrefixOrDefault(prefix)),
         payload |-> serialize(w.self, w.heap)]

(* ------------------------------------------------------------------ *)
(* Bounds and inputs                                                   *)
(* ------------------------------------------------------------------ *)
\* property writes made on one dict
MaxWrites == 1

\* the State objects a caller holds; only SpecShared uses the second
Slots == {"a", "b"}

\* addresses of the dicts on the heap: one per object, one for the mapping
\* the caller decoded
Addrs == Slots \cup {"data"}

\* the heap of a call whose objects do not outlive it
LocalHeap == [a \in {"local"} |-> EmptyDict]

Unbuilt == [cls |-> "unbuilt"]

DocEmpty == JObj(EmptyDict)

DocNull ==
    JObj((KEY_OUTPUT_ID :> JNull) @@ (KEY_OUTPUT_TYPE :> JNull)
         @@ (KEY_OUTPUT_ACTION :> JNull) @@ (KEY_OUTPUT_PROPERTIES :> JNull))

DocSwitch ==
    JObj((KEY_OUTPUT_ID :> JStr("o1")) @@ (KEY_OUTPUT_TYPE :> JStr("state"))
         @@ (KEY_OUTPUT_PROPERTIES :> JObj(KEY_PROPERTIES_VALUE :> JBool(TRUE))))

DocFull ==
    JObj((KEY_OUTPUT_ID :> JStr("o2")) @@ (KEY_OUTPUT_TYPE :> JStr("event"))
         @@ (KEY_OUTPUT_ACTION :> JStr("active"))
         @@ (KEY_OUTPUT_PROPERTIES :>
               JObj((KEY_PROPERTIES_STATE :> JStr("up"))
                    @@ (KEY_PROPERTIES_SHUTTER_POSITION :> JNum(10))
                    @@ (KEY_PROPERTIES_SLAT_POSITION :> JNum(20))
                    @@ (KEY_PROPERTIES_CURRENT_TEMPERATURE :> JNum(19))
                    @@ (KEY_PROPERTIES_SET_TEMPERATURE :> JNum(21))
                    @@ (KEY_PROPERTIES_REGIME :> JStr("eco"))
                    @@ ("extra" :> JObj("k" :> JNum(1))))))

DocNotAMap ==
    JObj((KEY_OUTPUT_ID :> JStr("o3")) @@ (KEY_OUTPUT_TYPE :> JStr("state"))
         @@ (KEY_OUTPUT_PROPERTIES :> JNum(5)))

DocEmptyProperties ==
    JObj((KEY_OUTPUT_ID :> JStr("o4")) @@ (KEY_OUTPUT_PROPERTIES :> JObj(EmptyDict)))

\* JSON objects
ObjectDocs == {DocEmpty, DocNull, DocSwitch, DocFull, DocNotAMap, DocEmptyProperties}

\* JSON values that are not objects
OtherDocs == {JNull, JNum(5), JStr("x"), JArr(<<JStr("A")>>)}

Payloads ==
    {NonePayload, InvalidText(""), InvalidText("{not json")}
    \cup {JsonText(d) : d \in ObjectDocs \cup OtherDocs}

DocDevices(n) ==
    JObj(KEY_DEVICES :> JArr([i \in 1..n |-> JObj("id" :> JStr("d1"))]))

DiscoveryPayloads ==
    {NonePayload, InvalidText("{not json"), JsonText(DocEmpty), JsonText(JArr(<<>>))}
    \cup {JsonText(DocDevices(n)) : n \in 0..2}

DeviceIds == {"D1", "D2", ""}
Prefixes == {None, Str("qbus/test")}

Defaults == {None, Bool(FALSE)}

\* keyword arguments of a constructor call; None is `not given'
Keywords ==
    {[id |-> None, type |-> None, action |-> None],
     [id |-> Str("k1"), type |-> Str(StateType_ACTION), action |-> None],
     [id |-> Str("k1"), type |-> Str(StateType_ACTION),
      action |-> Str(StateAction_ACTIVATE)]}
WriteKeys == {KEY_PROPERTIES_AUTHKEY, KEY_PROPERTIES_VALUE}
WriteValues == {None, Str("x"), Dict("k" :> Num(1))}

DeserializeClasses == OutputStateClasses \cup {QbusMqttGatewayState, QbusMqttDeviceState}

(* ------------------------------------------------------------------ *)
(* State                                                               *)
(* ------------------------------------------------------------------ *)
\* o with its properties dict in place of the reference to it
ObjView(o, h) ==
    IF "properties" \in DOMAIN o /\ ~IsInstance(o.properties)
    THEN [o EXCEPT !.properties = ByValue(@, h)]
    ELSE o

Built(i) == objs[i] # Unbuilt

NoLast == [op |-> "init", slot |-> "", exc |-> "none", ret |-> None, args |-> <<>>]

InitObjects ==
    /\ objs = [i \in Slots |-> Unbuilt]
    /\ hist = [i \in Slots |-> [written |-> FALSE, given |-> None]]
    /\ writes = [a \in Addrs |-> 0]
    /\ last = NoLast

\* the caller holds no decoded mapping
Init ==
    /\ InitObjects
    /\ data = None
    /\ heap = [a \in Addrs |-> EmptyDict]

\* the caller holds the mapping json.loads gave for a document
InitShared ==
    /\ InitObjects
    /\ \E d \in ObjectDocs :
          LET pl == Place(Loads(d), [a \in Addrs |-> EmptyDict], "data")
          IN  data = pl.v /\ heap = pl.heap

\* what the mapping d holds under "properties", None when it holds nothing
Supplied(d) ==
    IF d.t = "dict" THEN dict_get(d.m, KEY_OUTPUT_PROPERTIES, None) ELSE None

\* objs[i] = cls(d, id=.., type=.., action=..) on heap h; the object the slot
\* held is dropped
New(i, cls, d, h, kw) ==
    LET r == QbusMqttState_init(cls, d, kw.id, kw.type, kw.action)
    IN  /\ cls # QbusMqttState => kw.action = None
        /\ r.exc = "none"
        /\ objs' = [objs EXCEPT ![i] = r.obj]
        /\ heap' = h
        /\ hist' = [hist EXCEPT ![i] = [written |-> FALSE, given |-> Supplied(d)]]
        /\ writes' = [writes EXCEPT ![i] = 0]
        /\ last' = [op |-> "construct", slot |-> i, exc |-> "none", ret |-> None,
                    args |-> <<>>]
        /\ UNCHANGED data

\* cls(id=.., type=.., action=..) and cls(json.loads(doc), id=.., ...): the
\* mapping is decoded for this call, its properties dict is at address i
Construct(i) ==
    \E cls \in OutputStateClasses, kw \in Keywords :
        LET h0 == [heap EXCEPT ![i] = EmptyDict]
        IN  \/ New(i, cls, None, h0, kw)
            \/ \E d \in ObjectDocs :
                  LET pl == Place(Loads(d), h0, i)
                  IN  New(i, cls, pl.v, pl.heap, kw)

\* cls(data) and cls(data, id=.., type=..) from the mapping the caller holds
ConstructFromMapping(i) ==
    \E kw \in {k \in Keywords : k.action = None} :
        New(i, QbusMqttState, data, [heap EXCEPT ![i] = EmptyDict], kw)

\* an operation that returns a value and changes nothing
Reads(i, op, r, args) ==
    /\ Built(i)
    /\ last' = [op |-> op, slot |-> i, exc |-> r.exc, ret |-> r.ret, args |-> args]
    /\ UNCHANGED <<objs, heap, data, hist, writes>>

\* the address of the dict a property write on objs[i] goes to
Target(i) == IF objs[i].properties.t = "ref" THEN objs[i].properties.a ELSE i

\* a property write on the object
Writes(i, op, w, args) ==
    /\ Built(i)
    /\ writes[Target(i)] < MaxWrites
    /\ objs' = [objs EXCEPT ![i] = w.self]
    /\ heap' = w.heap
    /\ hist' = [hist EXCEPT ![i].written = TRUE]
    /\ writes' = IF w.exc = "none" THEN [writes EXCEPT ![Target(i)] = @ + 1] ELSE writes
    /\ last' = [op |-> op, slot |-> i, exc |-> w.exc, ret |-> None, args |-> args]
    /\ UNCHANGED data

ReadProperty(i) ==
    \E key \in WriteKeys \cup {KEY_PROPERTIES_STATE}, default \in Defaults :
        Reads(i, "read_property", read_property(objs[i], heap, key, default),
              <<key, default>>)

WriteProperty(i) ==
    \E key \in WriteKeys, value \in WriteValues :
        Writes(i, "write_property", write_property(objs[i], heap, i, key, value),
               <<key, value>>)

ReadValue(i) ==
    /\ objs[i].cls = QbusMqttOnOffState
    /\ Reads(i, "read_value", read_value(objs[i], heap), <<>>)

WriteValue(i) ==
    /\ objs[i].cls = QbusMqttOnOffState
    /\ \E on \in {Bool(TRUE), Bool(FALSE)} :
          Writes(i, "write_value", write_value(objs[i], heap, i, on),
                 <<KEY_PROPERTIES_VALUE, on>>)

ReadPercentage(i) ==
    /\ objs[i].cls = QbusMqttAnalogState
    /\ Reads(i, "read_percentage", read_percentage(objs[i], heap), <<>>)

WritePercentage(i) ==
    /\ objs[i].cls = QbusMqttAnalogState
    /\ \E percentage \in {Num(50)} :
          Writes(i, "write_percentage", write_percentage(objs[i], heap, i, percentage),
                 <<KEY_PROPERTIES_VALUE, percentage>>)

\* not a property write: it sets self.action
WriteOnOff(i) ==
    /\ objs[i].cls = QbusMqttAnalogState
    /\ \E on \in {Bool(TRUE), Bool(FALSE)} :
          LET w == write_on_off(objs[i], heap, i, on)
          IN  /\ objs' = [objs EXCEPT ![i] = w.self]
              /\ heap' = w.heap
              /\ last' = [op |-> "write_on_off", slot |-> i, exc |-> w.exc,
                          ret |-> None, args |-> <<on>>]
              /\ UNCHANGED <<data, hist, writes>>

ReadState(i) ==
    /\ objs[i].cls = QbusMqttShutterState
    /\ Reads(i, "read_state", read_state(objs[i], heap), <<>>)

WriteState(i) ==
    /\ objs[i].cls = QbusMqttShutterState
    /\ \E state \in {Str("down")} :
          Writes(i, "write_state", write_state(objs[i], heap, i, state),
                 <<KEY_PROPERTIES_STATE, state>>)

ReadPosition(i) ==
    /\ objs[i].cls = QbusMqttShutterState
    /\ Reads(i, "read_position", read_position(objs[i], heap), <<>>)

WritePosition(i) ==
    /\ objs[i].cls = QbusMqttShutterState
    /\ \E percentage \in {Num(30)} :
          Writes(i, "write_position", write_position(objs[i], heap, i, percentage),
                 <<KEY_PROPERTIES_SHUTTER_POSITION, percentage>>)

ReadSlatPosition(i) ==
    /\ objs[i].cls = QbusMqttShutterState
    /\ Reads(i, "read_slat_position", read_slat_position(objs[i], heap), <<>>)

WriteSlatPosition(i) ==
    /\ objs[i].cls = QbusMqttShutterState
    /\ \E percentage \in {Num(40)} :
          Writes(i, "write_slat_position",
                 write_slat_position(objs[i], heap, i, percentage),
                 <<KEY_PROPERTIES_SLAT_POSITION, percentage>>)

ReadCurrentTemperature(i) ==
    /\ objs[i].cls = QbusMqttThermoState
    /\ Reads(i, "read_current_temperature", read_current_temperature(objs[i], heap), <<>>)

ReadSetTemperature(i) ==
    /\ objs[i].cls = QbusMqttThermoState
    /\ Reads(i, "read_set_temperature", read_set_temperature(objs[i], heap), <<>>)

WriteSetTemperature(i) ==
    /\ objs[i].cls = QbusMqttThermoState
    /\ \E temperature \in {Num(22)} :
          Writes(i, "write_set_temperature",
                 write_set_temperature(objs[i], heap, i, temperature),
                 <<KEY_PROPERTIES_SET_TEMPERATURE, temperature>>)

ReadRegime(i) ==
    /\ objs[i].cls = QbusMqttThermoState
    /\ Reads(i, "read_regime", read_regime(objs[i], heap), <<>>)

WriteRegime(i) ==
    /\ objs[i].cls = QbusMqttThermoState
    /\ \E regime \in {Str("comfort")} :
          Writes(i, "write_regime", write_regime(objs[i], heap, i, regime),
                 <<KEY_PROPERTIES_REGIME, regime>>)

\* state = deserialize(cls, payload): an output state replaces the object of
\* slot i; any other outcome leaves the slot as it is
Deserialize(i) ==
    \E cls \in DeserializeClasses, payload \in Payloads :
        LET h0 == [heap EXCEPT ![i] = EmptyDict]
            r == deserialize(cls, payload, h0, i)
            kept == r.exc = "none" /\ r.ret # None /\ cls \in OutputStateClasses
        IN  /\ objs' = IF kept THEN [objs EXCEPT ![i] = r.ret] ELSE objs
            /\ heap' = IF kept THEN r.heap ELSE heap
            /\ hist' = IF kept
                       THEN [hist EXCEPT ![i] =
                               [written |-> FALSE,
                                given |-> Supplied(Place(Loads(payload.doc), h0, i).v)]]
                       ELSE hist
            /\ writes' = IF kept THEN [writes EXCEPT ![i] = 0] ELSE writes
            /\ last' = [op |-> "deserialize", slot |-> i, exc |-> r.exc,
                        ret |-> ObjView(r.ret, r.heap), args |-> <<cls, payload>>]
            /\ UNCHANGED data

Serialize(i) ==
    /\ Built(i)
    /\ last' = [op |-> "serialize", slot |-> i, exc |-> "none",
                ret |-> serialize(objs[i], heap), args |-> <<>>]
    /\ UNCHANGED <<objs, heap, data, hist, writes>>

\* deserialize(type(state), serialize(state))
RoundTrip(i) ==
    /\ Built(i)
    /\ LET r == deserialize(objs[i].cls, serialize(objs[i], heap), LocalHeap, "local")
       IN  last' = [op |-> "roundtrip", slot |-> i, exc |-> r.exc,
                    ret |-> ObjView(r.ret, r.heap), args |-> <<>>]
    /\ UNCHANGED <<objs, heap, data, hist, writes>>

ParseDiscovery ==
    \E payload \in DiscoveryPayloads :
        LET r == parse_discovery(payload, LocalHeap, "local")
        IN  /\ last' = [op |-> "parse_discovery", slot |-> "", exc |-> r.exc,
                        ret |-> r.ret, args |-> <<payload>>]
            /\ UNCHANGED <<objs, heap, data, hist, writes>>

CreateDeviceActivateRequest ==
    \E id \in DeviceIds, prefix \in Prefixes :
        /\ last' = [op |-> "create_device_activate_request", slot |-> "", exc |-> "none",
                    ret |-> create_device_activate_request([id |-> id], prefix,
                                                           LocalHeap, "local"),
                    args |-> <<id, prefix>>]
        /\ UNCHANGED <<objs, heap, data, hist, writes>>

VariantOps(i) ==
    \/ ReadValue(i)
    \/ WriteValue(i)
    \/ ReadPercentage(i)
    \/ WritePercentage(i)
    \/ WriteOnOff(i)
    \/ ReadState(i)
    \/ WriteState(i)
    \/ ReadPosition(i)
    \/ WritePosition(i)
    \/ ReadSlatPosition(i)
    \/ WriteSlatPosition(i)
    \/ ReadCurrentTemperature(i)
    \/ ReadSetTemperature(i)
    \/ WriteSetTemperature(i)
    \/ ReadRegime(i)
    \/ WriteRegime(i)

\* the state model: one object, its constructor and its accessors
Next == Construct("a") \/ ReadProperty("a") \/ WriteProperty("a") \/ VariantOps("a")

Spec == Init /\ [][Next]_vars

\* encoding and decoding of an object
NextCodec == Construct("a") \/ WriteProperty("a") \/ Serialize("a") \/ RoundTrip("a")

SpecCodec == Init /\ [][NextCodec]_vars

\* the message factory on payloads
NextFactory == Deserialize("a") \/ ParseDiscovery \/ CreateDeviceActivateRequest

SpecFactory == Init /\ [][NextFactory]_vars

\* two objects of the base class built from the mapping the caller decoded
NextShared == \E i \in Slots : ConstructFromMapping(i) \/ WriteProperty(i)

SpecShared == InitShared /\ [][NextShared]_vars

(* ------------------------------------------------------------------ *)
(* Claims                                                              *)
(* ------------------------------------------------------------------ *)
\* C1: deserialize(state_cls, payload) never raises: for every payload and
\* every state type it returns None or a value of the requested type, and
\* None and invalid JSON always give None.
C1_DeserializeNeverRaises ==
    last.op = "deserialize" =>
        /\ last.exc = "none"
        /\ last.ret = None \/ (IsInstance(last.ret) /\ last.ret.cls = last.args[1])
        /\ last.args[2].p \in {"none", "invalid"} => last.ret = None

RECURSIVE HasNull(_)
HasNull(doc) ==
    CASE doc.j = "null" -> TRUE
      [] doc.j = "array" -> \E x \in DOMAIN doc.ja : HasNull(doc.ja[x])
      [] doc.j = "object" -> \E k \in DOMAIN doc.jo : HasNull(doc.jo[k])
      [] OTHER -> FALSE

\* C2: the output of serialize holds no null at any nesting level, whatever
\* was written to the State, and a State with action None and properties
\* None encodes to an object holding only id and type.
C2_NoNullInOutput ==
    last.op = "serialize" =>
        /\ ~HasNull(last.ret.doc)
        /\ (objs[last.slot].action = None /\ objs[last.slot].properties = None)
              => DOMAIN last.ret.doc.jo \subseteq {KEY_OUTPUT_ID, KEY_OUTPUT_TYPE}

\* C3: in every State object, however constructed and whatever was done to
\* it, id and type are never None.
C3_IdTypeNeverNone ==
    \A i \in Slots : Built(i) => objs[i].id # None /\ objs[i].type # None

\* the mapping the caller holds, its properties dict by value
DataView == [data EXCEPT !.m = [k \in DOMAIN data.m |-> ByValue(data.m[k], heap)]]

\* C4: a write_property on one State never changes what read_property
\* returns on another State, nor the mapping they were constructed from.
C4_NoSharedState ==
    [][\A i \in Slots : \A j \in Slots \ {i} :
          (last'.op = "write_property" /\ last'.slot = i /\ Built(j)) =>
              /\ \A key \in WriteKeys, default \in Defaults :
                    read_property(objs[j], heap, key, default)
                        = read_property(objs'[j], heap', key, default)
              /\ DataView' = DataView]_vars

ReadOps ==
    {"read_property", "read_value", "read_percentage", "read_state", "read_position",
     "read_slat_position", "read_current_temperature", "read_set_temperature",
     "read_regime"}

\* the key an accessor is declared to read
AccessorKey(op) ==
    CASE op = "read_value" -> "value"
      [] op = "read_percentage" -> "value"
      [] op = "read_state" -> "state"
      [] op = "read_position" -> "shutterPosition"
      [] op = "read_slat_position" -> "slatPosition"
      [] op = "read_current_temperature" -> "currTemp"
      [] op = "read_set_temperature" -> "setTemp"
      [] op = "read_regime" -> "currRegime"

\* the default an accessor is declared to return
AccessorDefault(op) ==
    CASE op = "read_value" -> Bool(FALSE)
      [] op = "read_percentage" -> Num(0)
      [] OTHER -> None

\* properties[key] when properties is a dict that holds key, else default
Stored(o, h, key, default) ==
    IF o.properties.t = "ref" /\ key \in DOMAIN h[o.properties.a]
    THEN h[o.properties.a][key]
    ELSE default

\* C5: read_property(key, default) never raises and returns properties[key]
\* exactly when properties is present and holds key, otherwise default; each
\* accessor of each variant returns the value at its key, or its declared
\* default.
C5_ReadNeverRaises ==
    last.op \in ReadOps =>
        /\ last.exc = "none"
        /\ last.ret = IF last.op = "read_property"
                      THEN Stored(objs[last.slot], heap, last.args[1], last.args[2])
                      ELSE Stored(objs[last.slot], heap, AccessorKey(last.op),
                                  AccessorDefault(last.op))

\* the State a round trip came back with agrees with the State s that was
\* encoded on every field of s that is set
SameSetFields(s, r) ==
    /\ IsInstance(r)
    /\ r.cls = s.cls
    /\ s.id # None => r.id = s.id
    /\ s.type # None => r.type = s.type
    /\ s.action # None => r.action = s.action
    /\ s.properties # None => r.properties = s.properties

\* C6: deserialize(variant, serialize(state)) gives an object of the same
\* variant whose id, type, action and properties equal the values set in the
\* original.
C6_RoundTrip ==
    last.op = "roundtrip" =>
        last.exc = "none" /\ SameSetFields(ObjView(objs[last.slot], heap), last.ret)

\* a State with an action and a properties dict of several entries, one of
\* them a nested map, has gone through the round trip
C6_Witness ==
    /\ last.op = "roundtrip"
    /\ objs["a"].action = Str("active")
    /\ objs["a"].properties.t = "ref"
    /\ "extra" \in DOMAIN last.ret.properties.m
    /\ KEY_PROPERTIES_AUTHKEY \in DOMAIN last.ret.properties.m

\* the number of devices a discovery payload names, 0 when it is not a
\* document with a devices array
DevicesNamed(payload) ==
    IF payload.p = "json" /\ payload.doc.j = "object"
       /\ KEY_DEVICES \in DOMAIN payload.doc.jo
       /\ payload.doc.jo[KEY_DEVICES].j = "array"
    THEN Len(payload.doc.jo[KEY_DEVICES].ja)
    ELSE 0

C8_ActivateRequest ==
    last.op = "create_device_activate_request" =>
        /\ last.ret.topic =
              (IF last.args[2] = None THEN "cloudapp/QBUSMQTTGW" ELSE last.args[2].s)
              \o "/" \o last.args[1] \o "/setState"
        /\ last.ret.payload =
              JsonText(JObj(("id" :> JStr(last.args[1])) @@ ("type" :> JStr("action"))
                            @@ ("action" :> JStr("activate"))
                            @@ ("properties" :> JObj("authKey" :> JStr("ubielite")))))

\* the request for device D1 under the default prefix was built
C8_Witness ==
    /\ last.op = "create_device_activate_request"
    /\ last.args = <<"D1", None>>
    /\ last.ret.topic = "cloudapp/QBUSMQTTGW/D1/setState"

PropertyWriteOps ==
    {"write_property", "write_value", "write_percentage", "write_state",
     "write_position", "write_slat_position", "write_set_temperature", "write_regime"}

\* C9: write_property(key, value) makes properties the dict {key: value} when
\* it was absent and otherwise sets properties[key] and keeps every other
\* entry; id, type and action are unchanged; read_property(key, d) then
\* returns value for every d.
C9_WriteProperty ==
    [][last'.op \in PropertyWriteOps =>
          LET i == last'.slot
              key == last'.args[1]
              value == last'.args[2]
              before == objs[i]
              after == objs'[i]
          IN  /\ after.properties.t = "ref"
              /\ heap'[after.properties.a] =
                    IF before.properties = None
                    THEN (key :> value)
                    ELSE Put(Deref(before.properties, heap), key, value)
              /\ after.id = before.id
              /\ after.type = before.type
              /\ after.action = before.action
              /\ \A d \in Defaults :
                    read_property(after, heap', key, d) = [exc |-> "none", ret |-> value]
      ]_vars

\* C10: properties is None in every State on which no property write has
\* been made, however it was constructed and whatever reads or write_on_off
\* calls were made.
C10_AbsentUntilFirstWrite ==
    \A i \in Slots : (Built(i) /\ ~hist[i].written) => objs[i].properties = None

\* C10 (amended): in every State on which no property write has been made,
\* properties is what the mapping it was constructed from held under
\* "properties", and None when it was constructed without a mapping or the
\* mapping held none, whatever reads or write_on_off calls were made.
C10_AsConstructedUntilFirstWrite ==
    \A i \in Slots : (Built(i) /\ ~hist[i].written) =>
        /\ objs[i].properties = hist[i].given
        /\ hist[i].given = None => objs[i].properties = None

\* write_on_off was called on an Analog State built without a mapping, and
\* its properties is still None
C10_Witness ==
    /\ last.op = "write_on_off"
    /\ ~hist["a"].written
    /\ hist["a"].given = None
    /\ objs["a"].action = Str("on")
    /\ objs["a"].properties = None

====
